---- MODULE Spec2Model ----
(***************************************************************************)
(* RosiePi: the test controller (rosie/test_controller.py), the firmware   *)
(* build and flash pipeline (rosie/cirpy_actions.py) and the multi-board   *)
(* orchestration run_rosie (run_rosiepi.py), as one state machine.         *)
(*                                                                         *)
(* Python exceptions are modelled by their class, as far as the handlers   *)
(* of the code tell them apart:                                            *)
(*   "RuntimeError"   caught by start_test's `except RuntimeError`         *)
(*   "Exception"      any other Exception subclass (SyntaxWarning,         *)
(*                    FileExistsError, TimeoutError, AttributeError, ...)  *)
(*   "BaseException"  raised as BaseException(...) itself: no              *)
(*                    `except Exception` clause catches it                 *)
(* The log is a text buffer; its unit here is one line of text.            *)
(***************************************************************************)
EXTENDS Naturals, Integers, Sequences, FiniteSets, TLC

\* ------------------------------------------------------------------ bounds
\* Scripts discovered over a whole run (all boards, all start_test calls).
MaxScripts == 2
\* start_test calls a client makes on one controller (SpecAPI only).
MaxCalls == 2

\* config.supported_boards of the run_rosie run that is modelled.
Boards == <<"board_a", "board_b">>

\* ----------------------------------------------------------- test scripts
\* A script is the sequence of its lines; a line is one of
\*   "code"      a line of target code
\*   "blank"     the line "\n"
\*   "m_input" / "m_output" / "m_verify"   a well-formed `#$ <action>=<value>` line
\*   "m_bad"     a line starting with `#$` that the markup pattern rejects
ScriptFiles ==
  << <<"m_output", "code", "code">>,
     <<"m_input", "code">>,
     <<"m_verify", "code">>,
     <<"blank", "code">>,
     <<"m_bad", "code">>,
     <<"m_input", "code", "m_output", "code">> >>

IsMarker(line) == line \in {"m_input", "m_output", "m_verify"}

ActionOf(line) ==
  CASE line = "m_input" -> "input"
    [] line = "m_output" -> "output"
    [] line = "m_verify" -> "verify"
    [] OTHER -> "none"

\* parse_test_interactions: the first `#$` line the pattern rejects raises
\* SyntaxWarning; otherwise the map has key line_no + 1 for every marker line.
ParseFails(lines) == \E i \in 1..Len(lines) : lines[i] = "m_bad"

parse_test_interactionsSameLine(lines) ==
  [k \in {j \in 1..Len(lines) : IsMarker(lines[j])} |-> ActionOf(lines[k])]

parse_test_interactions(lines) ==
  [k \in {i + 1 : i \in {j \in 1..Len(lines) : IsMarker(lines[j])}}
     |-> ActionOf(lines[k - 1])]

\* TestObject.__init__: the parsed interactions; test_result starts as None.
TestObject(f) ==
  [file |-> f, interactions |-> parse_test_interactions(ScriptFiles[f]),
   test_result |-> "None"]

\* --------------------------------------------------------------- the log
\* io.StringIO(initial_value=v): the buffer holds v and the stream position
\* is 0. write(data) stores data at the position, over what is there, and
\* moves the position to the end of data; getvalue() is the whole buffer.
TestResultStream(initial_value) == [buf |-> initial_value, pos |-> 0]

Max(a, b) == IF a >= b THEN a ELSE b

TestResultStreamWrite(lg, data) ==
  [buf |-> [i \in 1..Max(Len(lg.buf), lg.pos + Len(data)) |->
              IF i > lg.pos /\ i <= lg.pos + Len(data)
                THEN data[i - lg.pos]
                ELSE lg.buf[i]],
   pos |-> lg.pos + Len(data)]

getvalue(lg) == lg.buf

IsPrefix(s, t) == Len(s) <= Len(t) /\ \A i \in 1..Len(s) : s[i] = t[i]

\* The header TestController.__init__ builds (init_msg, nine lines).
InitHeader(board) ==
  << "=== RosiePi ===", "Initiating rosiepi...", "---",
     " - Date/Time", " - Test commit", " - Test board: " \o board,
     "===", "Connecting to: " \o board, "---" >>

VARIABLES
  driver,           \* who calls the controller: "run_rosie" or "api"
  pc,               \* the statement about to run
  bi,               \* run_rosie: index of `board` in `boards`
  payload,          \* payload.node_test_data.board_tests
  app_conclusion,   \* run_rosie's app_conclusion
  brk,              \* run_rosie: the except clause ran and will `break`
  state,            \* TestController.state
  tests_run, tests_passed, tests_failed,
  has_tests,        \* the attribute self.tests exists
  tests,            \* self.tests
  has_board,        \* the attribute self.board exists
  board_open,       \* the board handle is held open (its serial port)
  log,              \* self.log
  ti, li,           \* run_tests: index of `test` in self.tests, line_no
  this_test_passed,
  exc,              \* the exception in flight, or the last one that left start_test
  fw_fault,         \* history: what failed in the firmware pipeline of this controller
  fail_line,        \* history: per script, the line that failed (0: none)
  fail_cause,       \* history: per script, what failed there ("none": nothing)
  discovered,       \* history: the files gather_tests found, in scandir order
  trace,            \* history: calls made to the collaborators, in order
  budget,           \* scripts that may still be discovered
  calls,            \* SpecAPI: start_test calls made so far
  cwd,              \* the process's working directory
  tree,             \* the branch or ref the firmware source tree is on
  ops,              \* history: what build_fw and update_fw did, step by step
  test_file,        \* parse_test_interactions: the file it is given
  parse,            \* parse_test_interactions: its loop and what it has built
  repl,             \* board.repl: bytes written to it, bytes it has yet to deliver
  xl                \* exec_line: the call in progress and how it ended

vars == << driver, pc, bi, payload, app_conclusion, brk, state, tests_run,
           tests_passed, tests_failed, has_tests, tests, has_board, board_open,
           log, ti, li, this_test_passed, exc, fw_fault, fail_line, fail_cause,
           discovered, trace, budget, calls, cwd, tree, ops,
           test_file, parse, repl, xl >>

rosie == << bi, payload, app_conclusion, brk >>
counters == << tests_run, tests_passed, tests_failed >>
loopv == << ti, li, this_test_passed >>

fs == << cwd, tree, ops >>
unit == << test_file, parse, repl, xl >>
ctl == << driver, pc, bi, payload, app_conclusion, brk, state, tests_run,
          tests_passed, tests_failed, has_tests, tests, has_board, board_open,
          log, ti, li, this_test_passed, exc, fw_fault, fail_line, fail_cause,
          discovered, trace, budget, calls, cwd, tree, ops >>
hist == << fail_line, fail_cause, discovered >>

NoExc == [kind |-> "none", origin |-> "none"]

Ev(e, t, l) == [ev |-> e, t |-> t, l |-> l]

\* `with board:` -- CPboard.__enter__ opens the handle, __exit__ closes it,
\* whether the block ends normally or by an exception.
Enter == << Ev("open", 0, 0) >>

ExitNoClose(held) == held

Exit(held) == FALSE

Close == << Ev("close", 0, 0) >>

\* Where control goes when start_test returns, and when an exception leaves it.
\* run_rosie wraps the call in try / except Exception / finally; another
\* client gets the exception itself.
ReturnPc == IF driver = "api" THEN "idle" ELSE "finally"

RaisedPc(kind) ==
  IF driver = "api" THEN "idle"
  ELSE IF kind \in {"RuntimeError", "Exception"} THEN "except" ELSE "finally"

\* ------------------------------------------------- TestController.result
resultIgnoresTestsRun(st, ht, tr, ts) ==
  IF st # "error"
    THEN IF ~ht THEN "AttributeError"
         ELSE IF \E i \in 1..Len(ts) : ts[i].test_result = "False"
                THEN "False" ELSE "True"
    ELSE "False"

result(st, ht, tr, ts) ==
  IF st # "error"
    THEN IF ~ht THEN "AttributeError"
         ELSE IF tr < Len(ts) THEN "False"
         ELSE IF \E i \in 1..Len(ts) : ts[i].test_result = "False"
                THEN "False" ELSE "True"
    ELSE "False"

Result == result(state, has_tests, tests_run, tests)

\* =============================================== parse_test_interactions
\* A file is its path and the lines readlines() gives; a line is the sequence
\* of its characters, the newline that ends it included.
MaxLines == 3

Marker == << "#", "$" >>
W_input == << "i", "n", "p", "u", "t" >>
W_output == << "o", "u", "t", "p", "u", "t" >>
W_verify == << "v", "e", "r", "i", "f", "y" >>
W_foo == << "f", "o", "o" >>
NL == << "\n" >>

\* The lines scripts are written with here.
LineCat ==
  << Marker \o << " " >> \o W_input \o << "=", "4" >> \o NL,
     Marker \o << " " >> \o W_output \o << "=", "4" >> \o NL,
     Marker \o << " " >> \o W_verify \o << "=", "m", ".", "f" >> \o NL,
     Marker \o << " " >> \o W_foo \o << "=", "b", "a", "r" >> \o NL,
     Marker \o << " " >> \o W_input \o << "=" >> \o NL,
     Marker \o << "\t" >> \o W_input \o << "=", "4" >> \o NL,
     Marker \o W_input \o << "=", "4" >> \o NL,
     << " ", " " >> \o Marker \o << " " >> \o W_verify \o << "=", "m", ".", "f" >> \o NL,
     << "x", "=", "1" >> \o NL,
     NL >>

\* The files open(test_file, 'r') can give: up to n lines, and only the last
\* line may lack its newline (it is then not empty).
Chop(line) == SubSeq(line, 1, Len(line) - 1)

FileTexts(n) ==
  LET lists == UNION { [1..k -> 1..Len(LineCat)] : k \in 0..n }
      cand == { c \in lists \X BOOLEAN :
                  c[2] \/ (Len(c[1]) > 0 /\ LineCat[c[1][Len(c[1])]] # NL) }
  IN { [i \in 1..Len(c[1]) |->
          IF i = Len(c[1]) /\ ~c[2] THEN Chop(LineCat[c[1][i]])
                                    ELSE LineCat[c[1][i]]] : c \in cand }

StartsWith(s, p) == Len(s) >= Len(p) /\ SubSeq(s, 1, Len(p)) = p

Drop(s, k) == SubSeq(s, k + 1, Len(s))

\* What \s matches in a str pattern, among the characters used here.
Whitespace == { " ", "\t", "\n", "\r", "\f" }

ActionWords == << W_input, W_output, W_verify >>

ActionNames == << "input", "output", "verify" >>

\* (.+$): the longest run of characters other than newline, one at least,
\* that ends at the end of the string or just before a final newline.
ValueLen(s) ==
  LET ks == { k \in 1..Len(s) :
                /\ \A j \in 1..k : s[j] # "\n"
                /\ \/ k = Len(s)
                   \/ k = Len(s) - 1 /\ s[Len(s)] = "\n" }
  IN IF ks = {} THEN 0 ELSE CHOOSE k \in ks : \A j \in ks : j <= k

\* has_action.match(line), has_action = ^\#\$\s(input|output|verify)\=(.+$):
\* the match object's groups, or ok = FALSE for None.
NoMatch == [ok |-> FALSE, action |-> "", value |-> <<>>]

has_action(line) ==
  IF ~(StartsWith(line, Marker) /\ Len(line) > Len(Marker)
         /\ line[Len(Marker) + 1] \in Whitespace)
    THEN NoMatch
    ELSE LET rest == Drop(line, Len(Marker) + 1)
             as == { a \in 1..Len(ActionWords) : StartsWith(rest, ActionWords[a]) }
         IN IF as = {} THEN NoMatch
            ELSE LET a == CHOOSE x \in as : TRUE
                     after == Drop(rest, Len(ActionWords[a]))
                 IN IF ~StartsWith(after, << "=" >>) \/ ValueLen(Drop(after, 1)) = 0
                      THEN NoMatch
                      ELSE [ok |-> TRUE, action |-> ActionNames[a],
                            value |-> SubSeq(Drop(after, 1), 1, ValueLen(Drop(after, 1)))]

\* line.startswith("#$")
startswithNever(line) == FALSE

startswith(line) == StartsWith(line, Marker)

\* interactions[(line_no + 1)]
InteractionKeySame(line_no) == line_no

InteractionKey(line_no) == line_no + 1

EmptyMap == [k \in {} |-> NoMatch]

NoFile == [path |-> "", lines |-> <<>>]

ParseIdle == [status |-> "idle", line_no |-> 0, interactions |-> EmptyMap,
              err_line |-> 0, err_file |-> ""]

\* ============================================================= exec_line
\* The transport carries bytes (their codes); the script, the directive's
\* value and the decoded output are text (characters).
MaxOut == 3

Chars == << "4", "0", "\r", "\n", "T", "O", "K", "x", ">" >>
Codes == << 52, 48, 13, 10, 84, 79, 75, 120, 62 >>

\* bytes(text, encoding="utf8") and str(data, encoding="utf-8"), on ASCII.
Ord(c) == Codes[CHOOSE i \in 1..Len(Chars) : Chars[i] = c]
Chr(b) == Chars[CHOOSE i \in 1..Len(Codes) : Codes[i] = b]
Encode(text) == [i \in 1..Len(text) |-> Ord(text[i])]
Decode(data) == [i \in 1..Len(data) |-> Chr(data[i])]

EOT == << 4 >>
CRLF == << 13, 10 >>
OK == << 79, 75 >>
Prompt == << 62 >>

\* tail_char
tail_charAlwaysEOT(input) == EOT

tail_char(input) == IF input THEN CRLF ELSE EOT

\* REPL.read_until(ending): bytes are taken one at a time until what was
\* taken ends with `ending`; when the board sends no more, TimeoutError.
read_until(rx, ending) ==
  LET ks == { k \in Len(ending)..Len(rx) :
                SubSeq(rx, k - Len(ending) + 1, k) = ending }
  IN IF ks = {}
       THEN [ok |-> FALSE, data |-> rx, rest |-> <<>>]
       ELSE LET k == CHOOSE x \in ks : \A y \in ks : x <= y
            IN [ok |-> TRUE, data |-> SubSeq(rx, 1, k), rest |-> Drop(rx, k)]

\* output[:-1], error[:-1]
KeepDelimiter(data) == data

StripDelimiter(data) == Chop(data)

\* if error: raise BaseException(error)
ErrorIgnored(error) == "none"

ErrorRaises(error) == IF error # <<>> THEN "BaseException" ELSE "none"

\* str.rstrip("\r\n"): every trailing character that is "\r" or "\n" goes.
RECURSIVE rstrip(_)
rstrip(s) ==
  IF Len(s) > 0 /\ s[Len(s)] \in {"\r", "\n"} THEN rstrip(Chop(s)) ELSE s

\* What the board answers to a request: the raw REPL's reply to code (OK,
\* stdout, EOT, stderr, EOT, prompt), the echo of a line typed at input(),
\* or nothing at all.
OutBytes == { 52, 48, 13, 10 }

SeqsUpTo(S, n) == UNION { [1..k -> S] : k \in 0..n }

BoardAnswers(command) ==
  { [kind |-> "exec", out |-> o, err |-> e,
     rx |-> OK \o o \o EOT \o e \o EOT \o Prompt] :
      o \in SeqsUpTo(OutBytes, MaxOut), e \in { <<>>, << 84 >> } }
  \cup { [kind |-> "echo", out |-> <<>>, err |-> <<>>, rx |-> Encode(command) \o CRLF],
         [kind |-> "silent", out |-> <<>>, err |-> <<>>, rx |-> <<>>] }

\* The lines and values the calls are made with, and the expected outputs.
Commands == { << "x" >>, << "4" >> }

Values == { << "4" >>, << "0", "4" >> }

ReplIdle == [tx |-> <<>>, rx |-> <<>>]

XlIdle ==
  [pc |-> "idle", command |-> <<>>, input |-> FALSE, echo |-> TRUE,
   output |-> <<>>, error |-> <<>>, status |-> "none", ret |-> <<>>,
   raised |-> "none", arg |-> <<>>, board |-> [kind |-> "none"],
   value |-> <<>>, result |-> <<>>, passed |-> TRUE]

UnitIdle == test_file = NoFile /\ parse = ParseIdle /\ repl = ReplIdle /\ xl = XlIdle

\* ---------------------------------------------------------------- Init
InitCommon ==
  /\ bi = 1
  /\ payload = <<>>
  /\ app_conclusion = ""
  /\ brk = FALSE
  /\ state = "none"
  /\ tests_run = 0 /\ tests_passed = 0 /\ tests_failed = 0
  /\ has_tests = FALSE /\ tests = <<>>
  /\ has_board = FALSE /\ board_open = FALSE
  /\ log = TestResultStream(<<>>)
  /\ ti = 0 /\ li = 0 /\ this_test_passed = TRUE
  /\ exc = NoExc
  /\ fw_fault = "none"
  /\ fail_line = <<>> /\ fail_cause = <<>> /\ discovered = <<>>
  /\ trace = <<>>
  /\ budget = MaxScripts
  /\ calls = 0
  /\ cwd = "working_dir"
  /\ tree = "rosiepi_test"
  /\ ops = <<>>

\* run_rosie is about to enter `for board in boards`.
Init == driver = "run_rosie" /\ pc = "loop" /\ InitCommon /\ UnitIdle

\* A client is about to construct one TestController and call it.
InitAPI == driver = "api" /\ pc = "ctor" /\ InitCommon /\ UnitIdle

\* ------------------------------------------- TestController.__init__
CtorInit ==
  /\ pc = "ctor"
  /\ state' = "init"
  /\ tests_run' = 0 /\ tests_passed' = 0 /\ tests_failed' = 0
  /\ log' = TestResultStream(InitHeader(Boards[bi]))
  /\ has_tests' = FALSE /\ tests' = <<>>
  /\ has_board' = FALSE /\ board_open' = FALSE
  /\ exc' = NoExc /\ fw_fault' = "none" /\ fail_line' = <<>> /\ fail_cause' = <<>>
  /\ discovered' = <<>> /\ trace' = <<>> /\ ops' = <<>>
  /\ pc' = "connect"
  /\ UNCHANGED << unit, driver, rosie, loopv, budget, calls, cwd, tree >>

\* pyboard.CPboard.from_try_all either returns the board or raises RuntimeError.
CtorConnect ==
  /\ pc = "connect"
  /\ \E connected \in BOOLEAN :
       IF connected
         THEN /\ has_board' = TRUE
              /\ log' = TestResultStreamWrite(log,
                           << "Connected!", "Board info:", " - Serial Number",
                              " - Disk Drive", "===" >>)
              /\ state' = "board_connected"
         ELSE /\ has_board' = FALSE
              /\ log' = TestResultStreamWrite(log,
                           << "Failed to connect to: " \o Boards[bi], "conn_err",
                              "===", "Closing RosiePi" >>)
              /\ state' = "error"
  /\ pc' = IF driver = "api" THEN "idle" ELSE "check"
  /\ UNCHANGED << unit, driver, rosie, counters, has_tests, tests, board_open, loopv,
                  exc, fw_fault, hist, trace, budget, calls, fs >>

\* ------------------------------------------------ cirpy_actions.build_fw
\* What can go wrong in build_fw: the step that exits non-zero or raises, if
\* any. The clean pass is run without `check`: when it exits non-zero
\* ("clean") nothing is raised and the build goes on. The rollback
\* `git checkout -f rosiepi_test` is taken to succeed.
BuildOutcomes ==
  { "unknown_board", "fetch", "checkout", "submodule_sync", "submodule_update",
    "clean", "mkdir", "make", "ok" }

GitSteps == << "fetch", "checkout", "submodule_sync", "submodule_update" >>

GitStepNo(o) == CHOOSE k \in 1..Len(GitSteps) : GitSteps[k] = o

\* The exception class that leaves build_fw: sh.ErrorReturnCode and
\* subprocess.CalledProcessError are converted to RuntimeError; the
\* FileExistsError of build_dir.mkdir is caught by neither clause.
BuildRaisesUnconverted(o) ==
  CASE o \in {"ok", "clean"} -> "none"
    [] o \in {"mkdir", "make"} -> "Exception"
    [] OTHER -> "RuntimeError"

BuildRaises(o) ==
  CASE o \in {"ok", "clean"} -> "none"
    [] o = "mkdir" -> "Exception"
    [] OTHER -> "RuntimeError"

\* The lines build_fw has written to the log when outcome o is decided.
BuildLog(o) ==
  LET msgs == << "Fetching...", "Checking out...", "Syncing submodules...",
                 "Updating submodules...", "Building firmware..." >>
  IN CASE o = "unknown_board" -> <<>>
       [] o \in {"mkdir", "make"} -> msgs
       [] o \in {"ok", "clean"} -> Append(msgs, " - bytes")
       [] OTHER -> SubSeq(msgs, 1, GitStepNo(o))

\* The ref the source tree is left on, and the working directory.
BuildTree(o) == IF o = "unknown_board" THEN tree
                ELSE IF o = "mkdir" THEN "build_ref" ELSE "rosiepi_test"

BuildCwd(o) == IF o = "mkdir" THEN "port_dir" ELSE cwd

\* The steps build_fw carries out, in order, up to the one that fails (it
\* is attempted) and through the handler that then runs.
BuildOpsChdirFirst(o) == << "chdir_cirpy" >>

BuildOps(o) ==
  LET git == << "git_fetch", "git_checkout", "git_submodule_sync",
                "git_submodule_update" >>
      back == << "git_checkout_rosiepi_test", "chdir_working_dir" >>
      make == << "chdir_port", "make_clean", "mkdir_build_dir" >>
  IN CASE o = "unknown_board" -> <<>>
       [] o = "mkdir" -> << "chdir_cirpy" >> \o git \o make
       [] o \in {"make", "clean", "ok"} ->
            << "chdir_cirpy" >> \o git \o make \o << "make" >> \o back
       [] OTHER -> << "chdir_cirpy" >> \o SubSeq(git, 1, GitStepNo(o)) \o back

\* --------------------------------------------- TestController.start_test
ApiStartTest ==
  /\ driver = "api" /\ pc = "idle" /\ calls < MaxCalls
  /\ calls' = calls + 1
  /\ exc' = NoExc
  /\ pc' = "start_test"
  /\ UNCHANGED << unit, driver, rosie, state, counters, has_tests, tests, has_board,
                  board_open, log, loopv, fw_fault, hist, trace, budget, fs >>

StartTest ==
  /\ pc = "start_test"
  /\ state' = "starting_fw_prep"
  /\ log' = TestResultStreamWrite(log, << "Preparing Firmware...", "---" >>)
  /\ pc' = "build"
  /\ UNCHANGED << unit, driver, rosie, counters, has_tests, tests, has_board, board_open,
                  loopv, exc, fw_fault, hist, trace, budget, calls, fs >>

\* start_test calls build_fw; `except RuntimeError` logs and sets state "error".
BuildFw ==
  /\ pc = "build"
  /\ \E o \in BuildOutcomes :
       /\ trace' = Append(trace, Ev("build_fw", 0, 0))
       /\ tree' = BuildTree(o)
       /\ ops' = ops \o BuildOps(o)
       /\ cwd' = BuildCwd(o)
       /\ fw_fault' = IF o = "ok" THEN fw_fault ELSE o
       /\ CASE BuildRaises(o) = "none" ->
                 /\ log' = TestResultStreamWrite(log,
                             BuildLog(o) \o << "===", "Updating Firmware on: " \o Boards[bi] >>)
                 /\ pc' = "flash"
                 /\ UNCHANGED << state, exc >>
            [] BuildRaises(o) = "RuntimeError" ->
                 /\ log' = TestResultStreamWrite(log,
                             BuildLog(o) \o << "Failed update firmware on: " \o Boards[bi],
                                               "fw_err", "===", "Closing RosiePi" >>)
                 /\ state' = "error"
                 /\ pc' = "st_check"
                 /\ UNCHANGED exc
            [] OTHER ->
                 /\ log' = TestResultStreamWrite(log, BuildLog(o))
                 /\ exc' = [kind |-> BuildRaises(o), origin |-> "build_fw"]
                 /\ pc' = RaisedPc(BuildRaises(o))
                 /\ UNCHANGED state
  /\ UNCHANGED << unit, driver, rosie, counters, has_tests, tests, has_board, board_open,
                  loopv, hist, budget, calls >>

\* ----------------------------------------------- cirpy_actions.update_fw
\* The step of update_fw that faults, if any: opening the handle, the reset
\* into bootloader mode, reading board.firmware.info (the bootloader's drive
\* is not there), the upload, or re-opening the handle afterwards.
FlashOutcomes == { "open", "reset", "info", "upload", "reopen", "ok" }

FlashLog(in_bootloader, o) ==
  LET r == IF in_bootloader THEN <<>> ELSE << "Resetting into bootloader mode..." >>
      u == << "In bootloader mode.", "Uploading firmware..." >>
  IN CASE o = "open" -> <<>>
       [] o \in {"reset", "info"} -> r
       [] o = "upload" -> r \o u
       [] o = "reopen" -> r \o u \o << "Waiting for board to reload..." >>
       [] OTHER -> r \o u \o << "Waiting for board to reload...",
                                "Firmware upload successful!" >>

\* The `with board:` blocks of update_fw: the first one around the reset and
\* the upload, the second one, empty, to see the board come back.
FlashHandle(o) ==
  CASE o = "open" -> <<>>
    [] o \in {"reset", "info", "upload", "reopen"} -> Enter \o Close
    [] OTHER -> Enter \o Close \o Enter \o Close

\* The steps update_fw carries out on the board, in order, up to the one
\* that fails (it is attempted). board.bootloader is read once the handle is
\* open; the bootloader info is read from the bootloader's drive.
FlashOpsAlwaysReset(in_bootloader, o) ==
  CASE o = "open" -> << "open" >>
    [] o = "reset" -> << "open", "reset_to_bootloader", "close" >>
    [] o = "info" -> << "open", "reset_to_bootloader", "bootloader_info", "close" >>
    [] o = "upload" ->
         << "open", "reset_to_bootloader", "bootloader_info", "upload", "close" >>
    [] OTHER ->
         << "open", "reset_to_bootloader", "bootloader_info", "upload", "close",
            "open" >> \o (IF o = "ok" THEN << "close" >> ELSE <<>>)

FlashOps(in_bootloader, o) ==
  LET mode == IF in_bootloader THEN << "in_bootloader" >>
              ELSE << "not_in_bootloader", "reset_to_bootloader" >>
  IN CASE o = "open" -> << "open" >>
       [] o = "reset" -> << "open" >> \o mode \o << "close" >>
       [] o = "info" -> << "open" >> \o mode \o << "bootloader_info", "close" >>
       [] o = "upload" ->
            << "open" >> \o mode \o << "bootloader_info", "upload", "close" >>
       [] OTHER ->
            << "open" >> \o mode \o << "bootloader_info", "upload", "close", "open" >>
              \o (IF o = "ok" THEN << "close" >> ELSE <<>>)

\* update_fw catches BaseException and raises BaseException(err_msg).
UpdateRaisesNothing(o) == "none"

UpdateRaises(o) == IF o = "ok" THEN "none" ELSE "BaseException"

\* start_test evaluates self.board and calls update_fw.
UpdateFw ==
  /\ pc = "flash"
  /\ IF ~has_board
       THEN \* self.board was never assigned: AttributeError, before the call
            /\ exc' = [kind |-> "Exception", origin |-> "start_test"]
            /\ pc' = RaisedPc("Exception")
            /\ UNCHANGED << state, log, trace, fw_fault, board_open, ops >>
       ELSE \E in_bootloader \in BOOLEAN, o \in FlashOutcomes :
            /\ o = "reset" => ~in_bootloader
            /\ trace' = Append(trace, Ev("update_fw", 0, 0)) \o FlashHandle(o)
            /\ fw_fault' = IF o = "ok" THEN fw_fault ELSE "flash"
            /\ board_open' = IF o = "open" THEN board_open ELSE Exit(TRUE)
            /\ ops' = ops \o FlashOps(in_bootloader, o)
            /\ CASE UpdateRaises(o) = "none" ->
                      /\ log' = TestResultStreamWrite(log,
                                  FlashLog(in_bootloader, o) \o << "===" >>)
                      /\ pc' = "st_check"
                      /\ UNCHANGED << state, exc >>
                 [] OTHER ->
                      /\ log' = TestResultStreamWrite(log, FlashLog(in_bootloader, o))
                      /\ exc' = [kind |-> UpdateRaises(o), origin |-> "update_fw"]
                      /\ pc' = RaisedPc(UpdateRaises(o))
                      /\ UNCHANGED state
  /\ UNCHANGED << unit, driver, rosie, counters, has_tests, tests, has_board,
                  loopv, hist, budget, calls, cwd, tree >>

\* --------------------------------------------- TestController.gather_tests
IsInjective(f) == \A a, b \in DOMAIN f : f[a] = f[b] => a = b

\* The directory listings os.scandir can give: up to n distinct files, any order.
ScriptLists(n) ==
  UNION { { f \in [1..k -> 1..Len(ScriptFiles)] : IsInjective(f) } : k \in 0..n }

\* gather_tests builds a TestObject per file; the first one whose parse fails
\* raises SyntaxWarning out of gather_tests and out of start_test.
GatherRaises(files) ==
  IF \E i \in 1..Len(files) : ParseFails(ScriptFiles[files[i]])
    THEN "Exception" ELSE "none"

StartTestReturn ==
  /\ pc = "st_check"
  /\ state = "error"
  /\ pc' = ReturnPc
  /\ UNCHANGED << unit, driver, rosie, state, counters, has_tests, tests, has_board,
                  board_open, log, loopv, exc, fw_fault, hist, trace, budget,
                  calls, fs >>

StartTestGather ==
  /\ pc = "st_check"
  /\ state # "error"
  /\ state' = "gather_tests"
  /\ log' = TestResultStreamWrite(log, << "Gathering tests to run..." >>)
  /\ \E files \in ScriptLists(budget) :
       /\ budget' = budget - Len(files)
       /\ discovered' = files
       /\ trace' = Append(trace, Ev("gather_tests", Len(files), 0))
       /\ IF GatherRaises(files) = "none"
            THEN /\ tests' = [i \in 1..Len(files) |-> TestObject(files[i])]
                 /\ has_tests' = TRUE
                 /\ fail_line' = [i \in 1..Len(files) |-> 0]
                 /\ fail_cause' = [i \in 1..Len(files) |-> "none"]
                 /\ pc' = "st_run"
                 /\ UNCHANGED exc
            ELSE /\ exc' = [kind |-> GatherRaises(files), origin |-> "gather_tests"]
                 /\ pc' = RaisedPc(GatherRaises(files))
                 /\ UNCHANGED << tests, has_tests, fail_line, fail_cause >>
  /\ UNCHANGED << unit, driver, rosie, counters, has_board, board_open, loopv, fw_fault,
                  calls, fs >>

\* start_test logs the list, sets state "running_tests" and calls run_tests,
\* which opens the board handle (`with self.board as board`).
StartTestRun ==
  /\ pc = "st_run"
  /\ log' = TestResultStreamWrite(log,
              << "The following tests will be run:", " - files", "===" >>)
  /\ state' = "running_tests"
  /\ board_open' = TRUE
  /\ ti' = 1 /\ li' = 0 /\ this_test_passed' = TRUE
  /\ trace' = Append(trace, Ev("run_tests", 0, 0)) \o Enter
  /\ pc' = "script"
  /\ UNCHANGED << unit, driver, rosie, counters, has_tests, tests, has_board, exc,
                  fw_fault, hist, budget, calls, fs >>

\* ------------------------------------------------ TestController.run_tests
Lines(t) == ScriptFiles[tests[t].file]

Count(r) == Cardinality({ i \in 1..Len(tests) : tests[i].test_result = r })

\* for test in self.tests: ... ; the prompt handshake repl.execute(b"\x01")
\* and repl.reset() are taken to succeed.
ScriptBegin ==
  /\ pc = "script"
  /\ ti <= Len(tests)
  /\ this_test_passed' = TRUE
  /\ log' = TestResultStreamWrite(log, << "Starting test: " \o ToString(tests[ti].file) >>)
  /\ li' = 1
  /\ pc' = "line"
  /\ UNCHANGED << unit, driver, rosie, state, counters, has_tests, tests, has_board,
                  board_open, ti, exc, fw_fault, hist, trace, budget, calls, fs >>

\* The loop is over: the handle is released, the counters are summed, the
\* summary is logged, run_tests returns and start_test writes its last rule.
RunTestsExit ==
  /\ pc = "script"
  /\ ti > Len(tests)
  /\ board_open' = Exit(board_open)
  /\ trace' = trace \o Close
  /\ tests_passed' = tests_passed + Count("True")
  /\ tests_failed' = tests_failed + Count("False")
  /\ log' = TestResultStreamWrite(log,
              << "Ran " \o ToString(tests_run) \o " of " \o ToString(Len(tests)) \o " tests.",
                 "Passed: " \o ToString(tests_passed'),
                 "Failed: " \o ToString(tests_failed'),
                 "===" >>)
  /\ pc' = ReturnPc
  /\ UNCHANGED << unit, driver, rosie, state, tests_run, has_tests, tests, has_board,
                  loopv, exc, fw_fault, hist, budget, calls, fs >>

\* ---------------------------------------------------------- exec_line
\* What the board does with a request: "ok", "timeout" (read_until gives up,
\* or any transport fault: an Exception subclass) or "stderr" (a non-empty
\* second channel). exec_line raises BaseException(error) for "stderr", and
\* only when it reads the channels (echo=True, input=False).
ExecLineRaises(r, echo) ==
  CASE r = "timeout" -> "Exception"
    [] r = "stderr" /\ echo -> "BaseException"
    [] OTHER -> "none"

\* run_tests wraps the driver calls in `except Exception as exc: raise
\* pyboard.CPboardError(exc)`; anything else passes through unchanged.
Wrapped(kind) == IF kind = "Exception" THEN "CPboardError" ELSE kind

\* `except pyboard.CPboardError` around the line.
LineCatches(kind) == kind = "CPboardError"

RunningLine == << "running line: (" \o ToString(li) \o ")" >>

TestFailedMsg ==
  << "Test Failed!", " - Last code executed", " - Line: " \o ToString(li),
     " - Exception" >>

\* The line about to run and the interaction attached to it.
AtLine == pc = "line" /\ li <= Len(Lines(ti))

LineKind ==
  IF Lines(ti)[li] = "blank" THEN "blank"
  ELSE IF li \in DOMAIN tests[ti].interactions THEN tests[ti].interactions[li]
  ELSE "plain"

\* The three ways a line ends: on to the next line, `break` (after the
\* CPboardError handler, or after an output mismatch), or an exception that
\* leaves run_tests through the `with` block, which releases the handle.
LineNext(data, events) ==
  /\ log' = TestResultStreamWrite(log, data)
  /\ trace' = trace \o events
  /\ li' = li + 1
  /\ pc' = "line"
  /\ UNCHANGED << this_test_passed, fail_line, fail_cause, exc, board_open >>

LineBreak(data, events, cause) ==
  /\ log' = TestResultStreamWrite(log, data)
  /\ trace' = trace \o events
  /\ this_test_passed' = FALSE
  /\ fail_line' = [fail_line EXCEPT ![ti] = li]
  /\ fail_cause' = [fail_cause EXCEPT ![ti] = cause]
  /\ pc' = "script_end"
  /\ UNCHANGED << li, exc, board_open >>

LineEscapes(data, events, kind, origin) ==
  /\ log' = TestResultStreamWrite(log, data)
  /\ trace' = trace \o events \o Close
  /\ fail_line' = [fail_line EXCEPT ![ti] = li]
  /\ fail_cause' = [fail_cause EXCEPT ![ti] = origin]
  /\ exc' = [kind |-> kind, origin |-> origin]
  /\ board_open' = Exit(board_open)
  /\ pc' = RaisedPc(kind)
  /\ UNCHANGED << li, this_test_passed >>

\* A raised exception of class `kind` at a line: caught as a line failure, or not.
LineRaised(data, events, kind, origin) ==
  IF LineCatches(kind)
    THEN LineBreak(data \o TestFailedMsg, events, origin)
    ELSE LineEscapes(data, events, kind, origin)

LineFrame == << unit, driver, rosie, state, counters, has_tests, tests, has_board, ti,
                fw_fault, discovered, budget, calls, fs >>

LinesDone ==
  /\ pc = "line"
  /\ li > Len(Lines(ti))
  /\ pc' = "script_end"
  /\ UNCHANGED << unit, driver, rosie, state, counters, has_tests, tests, has_board,
                  board_open, log, loopv, exc, fw_fault, hist, trace, budget,
                  calls, fs >>

\* if line == "\n": continue
LineBlank ==
  /\ AtLine /\ LineKind = "blank"
  /\ li' = li + 1
  /\ UNCHANGED << unit, driver, pc, rosie, state, counters, has_tests, tests, has_board,
                  board_open, log, ti, this_test_passed, exc, fw_fault, hist,
                  trace, budget, calls, fs >>

\* No interaction: board.repl.execute(line); what it returns is dropped, and a
\* fault of the transport (TimeoutError) is no CPboardError.
LinePlain ==
  /\ AtLine /\ LineKind = "plain"
  /\ \E r \in {"ok", "timeout"} :
       LET ev == << Ev("execute", ti, li) >>
       IN IF r = "ok"
            THEN LineNext(RunningLine, ev)
            ELSE LineRaised(RunningLine, ev, "Exception", "repl.execute")
  /\ UNCHANGED LineFrame

\* action == "output"
LineOutput ==
  /\ AtLine /\ LineKind = "output"
  /\ \E r \in {"ok", "timeout", "stderr"}, matches \in BOOLEAN :
       LET data == RunningLine \o << "- Testing for output of" >>
           ev == << Ev("exec_line", ti, li) >>
           raised == ExecLineRaises(r, TRUE)
       IN IF raised # "none"
            THEN matches /\ LineRaised(data, ev, Wrapped(raised), "exec_line")
            ELSE IF matches
                   THEN LineNext(data \o << " - Passed!" >>, ev)
                   ELSE LineBreak(data \o << " - Passed!" >>, ev, "mismatch")
  /\ UNCHANGED LineFrame

\* action == "input": exec_line(line, echo=False), then exec_line(value, input=True)
InputCallsReversed(t, l) == << Ev("input", t, l), Ev("exec_line_noecho", t, l) >>

InputCalls(t, l) == << Ev("exec_line_noecho", t, l), Ev("input", t, l) >>

LineInput ==
  /\ AtLine /\ LineKind = "input"
  /\ \E r1 \in {"ok", "timeout", "stderr"}, r2 \in {"ok", "timeout"} :
       LET data == RunningLine \o << "- Sending input" >>
           ev1 == SubSeq(InputCalls(ti, li), 1, 1)
           ev2 == InputCalls(ti, li)
           raised1 == ExecLineRaises(r1, FALSE)
           raised2 == ExecLineRaises(r2, FALSE)
       IN IF raised1 # "none"
            THEN r2 = "ok" /\ LineRaised(data, ev1, Wrapped(raised1), "exec_line")
            ELSE IF raised2 # "none"
                   THEN LineRaised(data, ev2, Wrapped(raised2), "exec_line")
                   ELSE LineNext(data, ev2)
  /\ UNCHANGED LineFrame

\* action == "verify": resolve the verifier, exec_line(line), call the verifier.
\* The verifier may return a falsy value (CPboardError is raised), raise an
\* Exception, or raise what exec_line raises when it drives the board itself.
VerifyOutcomes ==
  { "unresolved", "timeout", "stderr", "false", "ver_raises", "ver_stderr", "true" }

VerifyCallsExecFirst(t, l) ==
  << Ev("exec_line", t, l), Ev("resolve", t, l), Ev("ver_func", t, l) >>

VerifyCalls(t, l) ==
  << Ev("resolve", t, l), Ev("exec_line", t, l), Ev("ver_func", t, l) >>

LineVerify ==
  /\ AtLine /\ LineKind = "verify"
  /\ \E o \in VerifyOutcomes :
       LET data == RunningLine \o << "- Verifying with" >>
           ev0 == SubSeq(VerifyCalls(ti, li), 1, 1)
           ev1 == SubSeq(VerifyCalls(ti, li), 1, 2)
           ev2 == VerifyCalls(ti, li)
       IN CASE o = "unresolved" -> LineRaised(data, ev0, Wrapped("Exception"), "import")
            [] o \in {"timeout", "stderr"} ->
                 LineRaised(data, ev1, Wrapped(ExecLineRaises(o, TRUE)), "exec_line")
            [] o = "false" -> LineRaised(data, ev2, "CPboardError", "ver_func")
            [] o = "ver_raises" -> LineRaised(data, ev2, Wrapped("Exception"), "ver_func")
            [] o = "ver_stderr" ->
                 LineRaised(data, ev2, Wrapped(ExecLineRaises("stderr", TRUE)), "ver_func")
            [] OTHER -> LineNext(data \o << " - Passed!" >>, ev2)
  /\ UNCHANGED LineFrame

\* After the line loop: the outcome is recorded and the REPL is reset.
ScriptEnd ==
  /\ pc = "script_end"
  /\ tests' = [tests EXCEPT ![ti].test_result =
                 IF this_test_passed THEN "True" ELSE "False"]
  /\ tests_run' = tests_run + 1
  /\ log' = TestResultStreamWrite(log, << "---" >>)
  /\ ti' = ti + 1
  /\ pc' = "script"
  /\ UNCHANGED << unit, driver, rosie, state, tests_passed, tests_failed, has_tests,
                  has_board, board_open, li, this_test_passed, exc, fw_fault,
                  hist, trace, budget, calls, fs >>

\* ------------------------------------------------- run_rosiepi.run_rosie
\* for board in boards: board_results is initialised and the controller built.
RosieNextBoard ==
  /\ driver = "run_rosie" /\ pc = "loop"
  /\ bi <= Len(Boards)
  /\ pc' = "ctor"
  /\ UNCHANGED << unit, driver, rosie, state, counters, has_tests, tests, has_board,
                  board_open, log, loopv, exc, fw_fault, hist, trace, budget,
                  calls, fs >>

\* if rosie_test.state != "error": rosie_test.start_test()
RosieCheck ==
  /\ pc = "check"
  /\ IF state # "error"
       THEN pc' = "start_test" /\ UNCHANGED app_conclusion
       ELSE pc' = "finally" /\ app_conclusion' = "failure"
  /\ UNCHANGED << unit, driver, bi, payload, brk, state, counters, has_tests, tests,
                  has_board, board_open, log, loopv, exc, fw_fault, hist,
                  trace, budget, calls, fs >>

\* except Exception: the traceback is logged, then `break`.
RosieExcept ==
  /\ pc = "except"
  /\ log' = TestResultStreamWrite(log, << "Traceback" >>)
  /\ brk' = TRUE
  /\ pc' = "finally"
  /\ UNCHANGED << unit, driver, bi, payload, app_conclusion, state, counters, has_tests,
                  tests, has_board, board_open, loopv, exc, fw_fault, hist,
                  trace, budget, calls, fs >>

OutcomeNeverError(res, st) == IF res = "True" THEN "Passed" ELSE "Failed"

Outcome(res, st) ==
  IF res = "True" THEN "Passed" ELSE IF st # "error" THEN "Failed" ELSE "Error"

BoardResults ==
  [board_name |-> Boards[bi],
   outcome |-> Outcome(Result, state),
   tests_passed |-> ToString(tests_passed),
   tests_failed |-> ToString(tests_failed),
   rosie_log |-> getvalue(log)]

\* finally: reads rosie_test.result (which may itself raise), fills and appends
\* board_results; then the pending `break` or exception takes effect, or the
\* loop goes on with the next board.
RosieFinally ==
  /\ pc = "finally"
  /\ IF Result = "AttributeError"
       THEN /\ exc' = [kind |-> "Exception", origin |-> "result"]
            /\ pc' = "crashed"
            /\ UNCHANGED << bi, payload, app_conclusion >>
       ELSE /\ payload' = Append(payload, BoardResults)
            /\ app_conclusion' =
                 IF Result = "True" /\ app_conclusion # "failure"
                   THEN "success"
                   ELSE IF Result = "True" THEN app_conclusion ELSE "failure"
            /\ IF exc.kind # "none" /\ ~brk
                 THEN pc' = "crashed" /\ UNCHANGED bi
                 ELSE IF brk
                        THEN pc' = "post" /\ UNCHANGED bi
                        ELSE pc' = "loop" /\ bi' = bi + 1
            /\ UNCHANGED exc
  /\ UNCHANGED << unit, driver, brk, state, counters, has_tests, tests, has_board,
                  board_open, log, loopv, fw_fault, hist, trace, budget,
                  calls, fs >>

\* After the loop: the conclusion and the results table are put in the payload.
RosieFinish ==
  /\ driver = "run_rosie"
  /\ \/ pc = "post"
     \/ pc = "loop" /\ bi > Len(Boards)
  /\ pc' = "done"
  /\ UNCHANGED << unit, driver, rosie, state, counters, has_tests, tests, has_board,
                  board_open, log, loopv, exc, fw_fault, hist, trace, budget,
                  calls, fs >>

\* ------------------------------------------------------------------ Next
Controller ==
  \/ CtorInit \/ CtorConnect
  \/ StartTest \/ BuildFw \/ UpdateFw
  \/ StartTestReturn \/ StartTestGather \/ StartTestRun
  \/ ScriptBegin \/ RunTestsExit
  \/ LinesDone \/ LineBlank \/ LinePlain \/ LineOutput \/ LineInput \/ LineVerify
  \/ ScriptEnd

Next ==
  \/ RosieNextBoard \/ RosieCheck \/ RosieExcept \/ RosieFinally \/ RosieFinish
  \/ Controller

Spec == Init /\ [][Next]_vars

\* A client other than run_rosie: it constructs a controller and calls
\* start_test whenever no call is running, whatever the controller's state.
NextAPI == ApiStartTest \/ Controller

SpecAPI == InitAPI /\ [][NextAPI]_vars

\* ------------------------------------ parse_test_interactions, line by line
\* The call starts with the file open and interactions = {}.
InitParse ==
  /\ driver = "unit" /\ pc = "parse" /\ InitCommon
  /\ test_file \in { [path |-> "test.py", lines |-> t] : t \in FileTexts(MaxLines) }
  /\ parse = [ParseIdle EXCEPT !.status = "scanning", !.line_no = 1]
  /\ repl = ReplIdle /\ xl = XlIdle

ParseAt == parse.status = "scanning" /\ parse.line_no <= Len(test_file.lines)

ParseLineText == test_file.lines[parse.line_no]

\* if check_line: the directive is stored under the number of the next line.
ParseDirective ==
  /\ ParseAt /\ has_action(ParseLineText).ok
  /\ parse' = [parse EXCEPT
                 !.interactions =
                    (InteractionKey(parse.line_no) :>
                       [action |-> has_action(ParseLineText).action,
                        value |-> has_action(ParseLineText).value]) @@ @,
                 !.line_no = @ + 1]
  /\ UNCHANGED << ctl, test_file, repl, xl >>

\* else: a line that starts with "#$" raises SyntaxWarning, any other is skipped.
ParseOther ==
  /\ ParseAt /\ ~has_action(ParseLineText).ok
  /\ parse' = IF startswith(ParseLineText)
                THEN [parse EXCEPT !.status = "raised", !.err_line = parse.line_no,
                                   !.err_file = test_file.path]
                ELSE [parse EXCEPT !.line_no = @ + 1]
  /\ UNCHANGED << ctl, test_file, repl, xl >>

\* return interactions
ParseReturn ==
  /\ parse.status = "scanning" /\ parse.line_no > Len(test_file.lines)
  /\ parse' = [parse EXCEPT !.status = "returned"]
  /\ UNCHANGED << ctl, test_file, repl, xl >>

NextParse == ParseDirective \/ ParseOther \/ ParseReturn

SpecParse == InitParse /\ [][NextParse]_vars

\* ------------------------------------------------ exec_line, step by step
\* exec_line(board, command, input, echo) is entered; the board will answer
\* with xl.board.
InitDriver ==
  /\ driver = "unit" /\ pc = "exec_line" /\ InitCommon
  /\ test_file = NoFile /\ parse = ParseIdle
  /\ \E command \in Commands, input \in BOOLEAN, echo \in BOOLEAN :
       \E b \in BoardAnswers(command) :
         /\ input => echo
         /\ repl = [tx |-> <<>>, rx |-> b.rx]
         /\ xl = [XlIdle EXCEPT !.pc = "write_command", !.command = command,
                                !.input = input, !.echo = echo,
                                !.status = "running", !.board = b]

XlFrame == << ctl, test_file, parse >>

\* What a read that timed out leaves: TimeoutError out of exec_line.
XlTimeout == [xl EXCEPT !.pc = "done", !.status = "raised", !.raised = "Exception"]

\* board.repl.write(command)
XlWriteCommand ==
  /\ xl.pc = "write_command"
  /\ repl' = [repl EXCEPT !.tx = @ \o Encode(xl.command)]
  /\ xl' = [xl EXCEPT !.pc = "write_tail"]
  /\ UNCHANGED XlFrame

\* board.repl.write(tail_char)
XlWriteTail ==
  /\ xl.pc = "write_tail"
  /\ repl' = [repl EXCEPT !.tx = @ \o tail_char(xl.input)]
  /\ xl' = [xl EXCEPT !.pc = IF xl.input THEN "read_echo" ELSE "read_ok"]
  /\ UNCHANGED XlFrame

\* board.repl.read_until(b"OK"); with echo=False the call returns None here.
XlReadOK ==
  /\ xl.pc = "read_ok"
  /\ LET r == read_until(repl.rx, OK)
     IN /\ repl' = [repl EXCEPT !.rx = r.rest]
        /\ xl' = IF ~r.ok THEN XlTimeout
                 ELSE IF xl.echo THEN [xl EXCEPT !.pc = "read_output"]
                 ELSE [xl EXCEPT !.pc = "done", !.status = "returned", !.ret = "None"]
  /\ UNCHANGED XlFrame

\* output = board.repl.read_until(b"\x04"); output = output[:-1]
XlReadOutput ==
  /\ xl.pc = "read_output"
  /\ LET r == read_until(repl.rx, EOT)
     IN /\ repl' = [repl EXCEPT !.rx = r.rest]
        /\ xl' = IF ~r.ok THEN XlTimeout
                 ELSE [xl EXCEPT !.pc = "read_error", !.output = StripDelimiter(r.data)]
  /\ UNCHANGED XlFrame

\* error = board.repl.read_until(b"\x04"); error = error[:-1];
\* if error: raise BaseException(error); return output
XlReadError ==
  /\ xl.pc = "read_error"
  /\ LET r == read_until(repl.rx, EOT)
     IN /\ repl' = [repl EXCEPT !.rx = r.rest]
        /\ xl' = IF ~r.ok THEN XlTimeout
                 ELSE IF ErrorRaises(StripDelimiter(r.data)) # "none"
                   THEN [xl EXCEPT !.pc = "done", !.status = "raised",
                                   !.error = StripDelimiter(r.data),
                                   !.raised = ErrorRaises(StripDelimiter(r.data)),
                                   !.arg = StripDelimiter(r.data)]
                   ELSE [xl EXCEPT !.pc = "done", !.status = "returned",
                                   !.ret = xl.output]
  /\ UNCHANGED XlFrame

\* board.repl.read_until(bytes(command, encoding="utf8")); returns None
XlReadEcho ==
  /\ xl.pc = "read_echo"
  /\ LET r == read_until(repl.rx, Encode(xl.command))
     IN /\ repl' = [repl EXCEPT !.rx = r.rest]
        /\ xl' = IF ~r.ok THEN XlTimeout
                 ELSE [xl EXCEPT !.pc = "done", !.status = "returned", !.ret = "None"]
  /\ UNCHANGED XlFrame

\* run_tests, action == "output", with what exec_line(board, line) returned:
\* result = str(result, encoding="utf-8").rstrip("\r\n"); result != value
\* sets this_test_passed = False.
OutputCompare ==
  /\ xl.pc = "done" /\ xl.status = "returned" /\ ~xl.input /\ xl.echo
  /\ \E value \in Values :
       xl' = [xl EXCEPT !.pc = "compared", !.value = value,
                        !.result = rstrip(Decode(xl.ret)),
                        !.passed = (rstrip(Decode(xl.ret)) = value)]
  /\ UNCHANGED << XlFrame, repl >>

NextDriver ==
  \/ XlWriteCommand \/ XlWriteTail \/ XlReadOK \/ XlReadOutput \/ XlReadError
  \/ XlReadEcho \/ OutputCompare

SpecDriver == InitDriver /\ [][NextDriver]_vars

\* ================================================================ claims
SentEvents == { "execute", "exec_line", "exec_line_noecho", "input" }

\* The lines of script i that were sent to the board's REPL.
SentLines(i) ==
  { trace[k].l : k \in { j \in 1..Len(trace) :
                           trace[j].ev \in SentEvents /\ trace[j].t = i } }

\* run_tests is no longer working on script i.
ScriptOver(i) == ~(pc \in {"line", "script_end"} /\ ti = i)

\* Control has left run_tests (by return or by exception).
RunTestsExited == has_tests /\ pc \notin {"st_run", "script", "line", "script_end"}

FirstLine(i) ==
  CHOOSE l \in 1..Len(Lines(i)) :
    /\ Lines(i)[l] # "blank"
    /\ \A m \in 1..(l - 1) : Lines(i)[m] = "blank"

AnyFailed == \E i \in 1..Len(tests) : tests[i].test_result = "False"

\* C1: TestController.result, whenever it returns a value, is False if and only
\* if some script outcome is False, or the state is "error", or tests_run is
\* less than the number of discovered scripts; otherwise it is True.
C1_ResultIff ==
  (state # "none" /\ (state = "error" \/ has_tests)) =>
     /\ Result \in {"True", "False"}
     /\ Result = "False" <=>
          (AnyFailed \/ state = "error" \/ tests_run < Len(tests))

\* C1 witness: run_rosie reads result after a run that stopped early: one
\* script ran and passed, another was never run, and the result is False.
C1_Witness ==
  /\ pc = "finally" /\ state = "running_tests" /\ has_tests
  /\ tests_run > 0 /\ tests_run < Len(tests)
  /\ ~AnyFailed
  /\ Result = "False"

\* C2: when a line of script i fails, no later line of script i is sent to the
\* board, the outcome of script i is False, and every later script is still
\* run from its first line.
C2_LineFailureLocal ==
  \A i \in 1..Len(fail_line) :
    fail_line[i] > 0 =>
      /\ \A l \in SentLines(i) : l <= fail_line[i]
      /\ ScriptOver(i) => tests[i].test_result = "False"
      /\ RunTestsExited =>
           \A j \in (i + 1)..Len(tests) : FirstLine(j) \in SentLines(j)

\* C3: when exec_line fails on a directive line, the script's outcome becomes
\* False and no exception leaves run_tests or start_test.
C3_DriverErrorIsLineFailure ==
  \A i \in 1..Len(fail_cause) :
    fail_cause[i] = "exec_line" =>
      /\ exc.kind = "none"
      /\ ScriptOver(i) => tests[i].test_result = "False"

\* C4: when update_fw fails, the state becomes "error", no script is gathered
\* or run, and start_test returns without an exception.
C4_FlashFailureHandled ==
  fw_fault = "flash" =>
    /\ state = "error"
    /\ exc.kind = "none"
    /\ ~has_tests /\ discovered = <<>>

\* C5: when build_fw fails for an unknown board, a git step that exits
\* non-zero or a build that exits non-zero, the state becomes "error",
\* update_fw is never called, no script is gathered or run, start_test returns
\* without an exception and result is False.
BuildFailures ==
  { "unknown_board", "fetch", "checkout", "submodule_sync", "submodule_update",
    "make" }

WellFormed(files) ==
  { i \in 1..Len(files) : ~ParseFails(ScriptFiles[files[i]]) }

C6_ParseErrorLocal ==
  (\E i \in 1..Len(discovered) : ParseFails(ScriptFiles[discovered[i]])) =>
    /\ exc.origin # "gather_tests"
    /\ has_tests
    /\ \A i \in WellFormed(discovered) :
         \E t \in 1..Len(tests) : tests[t].file = discovered[i]
    /\ RunTestsExited => \A t \in 1..Len(tests) : tests[t].test_result # "None"

\* C7: run_rosie attempts every configured board in order and appends exactly
\* one record per board, whatever happened on earlier boards, and does not
\* crash.
C7_EveryBoardAttempted ==
  /\ pc # "crashed"
  /\ pc = "done" =>
       /\ Len(payload) = Len(Boards)
       /\ \A i \in 1..Len(Boards) : payload[i].board_name = Boards[i]

\* C8: the log is append-only: every write leaves the earlier content, the
\* header first, as a prefix of the new content.
C8_LogAppendOnly ==
  [][pc # "ctor" => IsPrefix(getvalue(log), getvalue(log'))]_vars

\* C9: the controller state only moves forward and "error" is absorbing,
\* whatever operations a client calls and in whatever order.
StateRank(st) ==
  CASE st = "none" -> 0
    [] st = "init" -> 1
    [] st = "board_connected" -> 2
    [] st = "starting_fw_prep" -> 3
    [] st = "gather_tests" -> 4
    [] st = "running_tests" -> 5
    [] st = "done" -> 6
    [] OTHER -> 7

C9_ForwardOnly == [][StateRank(state') >= StateRank(state)]_vars

\* C10: when start_test returns after build, flash and all discovered scripts,
\* the state is a terminal "done", not "running_tests".
StartTestCompleted ==
  /\ pc = ReturnPc /\ exc.kind = "none"
  /\ has_tests /\ tests_run = Len(tests)
  /\ state # "error"

C10_DoneAfterSuccess == StartTestCompleted => state = "done"

\* ------------------------------------------- claims on the markup parser
\* A line without the newline that ends it.
Body(line) ==
  IF Len(line) > 0 /\ line[Len(line)] = "\n" THEN Chop(line) ELSE line

\* The ways to read a line as `#$`, one separator out of seps, an action
\* word, `=` and a value of one character at least, none of them a newline:
\* the action words that fit.
MarkerForms(line, seps) ==
  IF /\ \A j \in 1..Len(Body(line)) : Body(line)[j] # "\n"
     /\ Len(Body(line)) > Len(Marker)
     /\ \E sep \in seps : StartsWith(Body(line), Marker \o << sep >>)
    THEN { a \in 1..Len(ActionWords) :
             /\ StartsWith(Drop(Body(line), Len(Marker) + 1),
                           ActionWords[a] \o << "=" >>)
             /\ Len(Body(line)) > Len(Marker) + 1 + Len(ActionWords[a]) + 1 }
    ELSE {}

FormAction(line) ==
  ActionNames[CHOOSE a \in MarkerForms(line, Whitespace) : TRUE]

FormValue(line) ==
  LET a == CHOOSE x \in MarkerForms(line, Whitespace) : TRUE
  IN Drop(Body(line), Len(Marker) + 1 + Len(ActionWords[a]) + 1)

\* The lines of the file that begin with `#$` and have no such reading.
Malformed(seps) ==
  { i \in 1..Len(test_file.lines) :
      /\ StartsWith(test_file.lines[i], Marker)
      /\ MarkerForms(test_file.lines[i], seps) = {} }

\* The lines of the file that are markup comments.
ValidMarkers ==
  { i \in 1..Len(test_file.lines) : MarkerForms(test_file.lines[i], Whitespace) # {} }

\* The lines that are a markup comment behind leading blanks.
IndentedMarkers ==
  { i \in 1..Len(test_file.lines) :
      \E k \in 1..Len(test_file.lines[i]) :
        /\ \A j \in 1..k : test_file.lines[i][j] = " "
        /\ MarkerForms(Drop(test_file.lines[i], k), {" "}) # {} }

MinOf(S) == CHOOSE x \in S : \A y \in S : x <= y

ParseEnded == parse.status \in {"returned", "raised"}

C15_DirectiveIffMarkerBefore ==
  parse.status = "returned" =>
     /\ DOMAIN parse.interactions = { i + 1 : i \in ValidMarkers }
     /\ \A i \in ValidMarkers :
          /\ parse.interactions[i + 1].action = FormAction(test_file.lines[i])
          /\ parse.interactions[i + 1].value = FormValue(test_file.lines[i])

C15_Witness ==
  /\ parse.status = "returned"
  /\ Len(test_file.lines) = 3
  /\ DOMAIN parse.interactions = {2, 3}
  /\ parse.interactions[2].action = "input"
  /\ parse.interactions[3].action = "verify"

\* C16: when the parser returns, every key of the map is the number of a
\* line of the file: between 1 and the number of lines.
C16_DirectiveLineExists ==
  parse.status = "returned" =>
     \A k \in DOMAIN parse.interactions : 1 <= k /\ k <= Len(test_file.lines)

\* C17: a markup comment indented to the level of the code it annotates is
\* recognised: when the parser returns, the line after it has its directive.
C17_IndentedMarkerRecognised ==
  parse.status = "returned" =>
     \A i \in IndentedMarkers : (i + 1) \in DOMAIN parse.interactions

\* --------------------------------------------- claims on the REPL driver
XlEnded == xl.pc \in {"done", "compared"}

\* Text with one trailing "\r\n" removed, if it ends with one.
StripOneCRLF(text) ==
  IF Len(text) >= 2 /\ SubSeq(text, Len(text) - 1, Len(text)) = << "\r", "\n" >>
    THEN SubSeq(text, 1, Len(text) - 2)
    ELSE text

\* C11: a line with an Output directive passes exactly when the captured
\* output, with one trailing CRLF removed and nothing else, equals the
\* expected value.
C11_OutputComparison ==
  xl.pc = "compared" => (xl.passed <=> StripOneCRLF(Decode(xl.ret)) = xl.value)

\* C12, as stated: for every execution request (input=False), with or
\* without output capture, a non-empty error channel makes the call raise
\* with those bytes, and they are not returned.
C12_ErrorChannelSurfaces ==
  (XlEnded /\ ~xl.input /\ xl.board.kind = "exec" /\ xl.board.err # <<>>) =>
     /\ xl.status = "raised"
     /\ xl.arg = xl.board.err

\* C12, amended: the same for the requests made with output capture
\* (echo=True).
C12_ErrorChannelSurfacesOnCapture ==
  (XlEnded /\ ~xl.input /\ xl.echo /\ xl.board.kind = "exec"
     /\ xl.board.err # <<>>) =>
     /\ xl.status = "raised"
     /\ xl.raised = "BaseException"
     /\ xl.arg = xl.board.err
     /\ xl.ret = <<>>

C12_Witness ==
  /\ xl.pc = "done" /\ xl.echo /\ ~xl.input
  /\ xl.board.kind = "exec" /\ xl.board.out = << 52 >> /\ xl.board.err = << 84 >>
  /\ xl.status = "raised" /\ xl.arg = << 84 >>

\* C13: for a request with output capture answered by OK, s, EOT, an empty
\* error channel and EOT, exec_line returns exactly s and raises nothing.
C13_CapturedOutputReturned ==
  (XlEnded /\ ~xl.input /\ xl.echo /\ xl.board.kind = "exec"
     /\ xl.board.err = <<>>) =>
     /\ xl.status = "returned"
     /\ xl.raised = "none"
     /\ xl.ret = xl.board.out

C13_Witness ==
  /\ xl.pc = "done" /\ xl.echo /\ ~xl.input
  /\ xl.board.kind = "exec" /\ xl.board.out = << 52 >> /\ xl.board.err = <<>>
  /\ xl.status = "returned" /\ xl.ret = << 52 >>

\* ------------------------------------ claims on the run as a whole, again
\* The calls made to the board for script i, in order: what was called and
\* for which line.
IsCallOf1(e) == e.ev \in SentEvents \cup {"ver_func"} /\ e.t = 1

CallsOf1 ==
  LET es == SelectSeq(trace, IsCallOf1)
  IN [k \in 1..Len(es) |-> << es[k].ev, es[k].l >>]

\* `#$ input=4`, `result = input()`, `#$ output=4`, `print(result)`
EndToEndScript == << "m_input", "code", "m_output", "code" >>

\* The two comment lines go to the board as plain lines; line 2 is executed
\* without capture and its input is submitted; line 4 is executed with capture.
EndToEndCalls ==
  << << "execute", 1 >>, << "exec_line_noecho", 2 >>, << "input", 2 >>,
     << "execute", 3 >>, << "exec_line", 4 >> >>

EndToEndRun ==
  /\ has_tests /\ Len(tests) = 1 /\ Lines(1) = EndToEndScript
  /\ fail_cause[1] = "none"

\* C18: with the board connected, firmware built and flashed, the one script
\* `#$ input=4` / `result = input()` / `#$ output=4` / `print(result)` and a
\* board that answers every request and prints what it was given: line 2 is
\* executed with output suppressed, then the value is submitted as input, then
\* line 4 is executed with capture and compares equal; the script's outcome
\* is passed and the aggregate result is passed.
C18_EndToEndPasses ==
  EndToEndRun =>
    /\ IsPrefix(CallsOf1, EndToEndCalls)
    /\ RunTestsExited =>
         /\ CallsOf1 = EndToEndCalls
         /\ tests[1].test_result = "True"
         /\ tests_run = 1
         /\ Result = "True"

C18_Witness ==
  /\ EndToEndRun /\ pc = "finally" /\ exc.kind = "none"
  /\ CallsOf1 = EndToEndCalls
  /\ tests[1].test_result = "True" /\ Result = "True"

\* C19: a Verify line whose capability does not resolve, returns a falsy
\* value or raises any fault when invoked fails the line: the script's
\* outcome is failed, no exception leaves run_tests and the later scripts
\* are run.
VerifyFaults == { "import", "ver_func" }

C19_VerifyFailureIsLineFailure ==
  /\ ~(exc.kind # "none" /\ exc.origin \in VerifyFaults)
  /\ \A i \in 1..Len(fail_cause) :
       fail_cause[i] \in VerifyFaults =>
         /\ ScriptOver(i) => tests[i].test_result = "False"
         /\ RunTestsExited =>
              \A j \in (i + 1)..Len(tests) : tests[j].test_result # "None"

\* C20: the handle is opened only when it is not held, and it is not held
\* whenever control is outside update_fw and run_tests, however they were left.
IsHandleEv(e) == e.ev \in {"open", "close"}

HandleEvents == SelectSeq(trace, IsHandleEv)

C20_HandleReleased ==
  /\ \A k \in 1..Len(HandleEvents) :
       HandleEvents[k].ev = IF k % 2 = 1 THEN "open" ELSE "close"
  /\ board_open <=> (Len(HandleEvents) % 2 = 1)
  /\ pc \notin {"script", "line", "script_end"} => ~board_open

\* C20 witness: flash succeeded (two blocks entered and left), run_tests
\* opened the handle and was left by an exception of the driver.
C20_Witness ==
  /\ pc = "finally" /\ exc.kind = "BaseException" /\ exc.origin = "exec_line"
  /\ Len(HandleEvents) = 6 /\ ~board_open

\* ------------------------------------------- claims on the build pipeline
\* The steps of build_fw behind os.chdir(cirpy_dir()).
BuildStepFailures ==
  { "fetch", "checkout", "submodule_sync", "submodule_update", "clean", "mkdir",
    "make" }

\* C21: once build_fw has entered the source tree, the failure of any step
\* (fetch, checkout, submodule sync, submodule update, clean pass, creation of
\* the build directory, build pass) puts the tree back on rosiepi_test and
\* raises the build failure that start_test handles: none is ignored and none
\* leaves the tree on the ref under test.
C21_AnyStepFailureRollsBack ==
  (fw_fault \in BuildStepFailures /\ pc # "build") =>
     /\ tree = "rosiepi_test"
     /\ state = "error"
     /\ exc.origin # "build_fw"

\* C22: build_fw for a board found under no supported port raises at once:
\* the working directory and the source tree are as they were, no git or make
\* command has run and no build directory was created.
C22_UnknownBoardNoSideEffects ==
  [][(pc = "build" /\ fw_fault' = "unknown_board") =>
       /\ cwd' = cwd /\ tree' = tree /\ ops' = ops
       /\ state' = "error" /\ pc' = "st_check"]_vars

C22_Witness ==
  /\ fw_fault = "unknown_board" /\ pc = "st_check" /\ state = "error"
  /\ ops = <<>> /\ cwd = "working_dir" /\ tree = "rosiepi_test"

\* ---------------------------------------------- claims on the board record
\* C23: every record run_rosie appends has outcome Passed exactly when the
\* controller's result is True, Error exactly when its state is "error" and
\* Failed otherwise, and holds the controller's tests_passed, tests_failed
\* (as text) and the whole of its log.
C23_RecordOutcome ==
  [][payload' # payload =>
       /\ Len(payload') = Len(payload) + 1
       /\ SubSeq(payload', 1, Len(payload)) = payload
       /\ LET rec == payload'[Len(payload')]
          IN /\ rec.outcome \in {"Passed", "Failed", "Error"}
             /\ rec.outcome = "Passed" <=> Result = "True"
             /\ rec.outcome = "Error" <=> state = "error"
             /\ rec.board_name = Boards[bi]
             /\ rec.tests_passed = ToString(tests_passed)
             /\ rec.tests_failed = ToString(tests_failed)
             /\ rec.rosie_log = getvalue(log)]_vars

\* C23 witness: the first board's run failed one script and the second board
\* did not connect.
C23_Witness ==
  /\ Len(payload) = 2
  /\ payload[1].outcome = "Failed" /\ payload[1].tests_failed = "1"
  /\ payload[2].outcome = "Error"

\* --------------------------------- claims on the Input and Verify lines
\* What was called for line l of script i, in order.
EventsAt(i, l) ==
  LET ks == { k \in 1..Len(trace) : trace[k].t = i /\ trace[k].l = l }
      Nth(n) == CHOOSE k \in ks : Cardinality({ j \in ks : j <= k }) = n
  IN [n \in 1..Cardinality(ks) |-> trace[Nth(n)].ev]

DirectiveLines(i, action) ==
  { l \in DOMAIN tests[i].interactions :
      /\ l <= Len(Lines(i)) /\ Lines(i)[l] # "blank"
      /\ tests[i].interactions[l] = action }

\* C24: for a line with an Input directive exactly two driver calls are made,
\* the execution of the line without capture and then the submission of the
\* value; the second is not made when the first fails, nothing is compared,
\* and the line passes when neither fails.
C24_InputTwoCalls ==
  \A i \in 1..Len(fail_line) : \A l \in DirectiveLines(i, "input") :
    /\ EventsAt(i, l) \in { <<>>, << "exec_line_noecho" >>,
                            << "exec_line_noecho", "input" >> }
    /\ EventsAt(i, l) = << "exec_line_noecho" >> =>
         (fail_line[i] = l /\ fail_cause[i] = "exec_line")
    /\ fail_line[i] = l => fail_cause[i] = "exec_line"
    /\ (ti = i /\ pc = "line" /\ li = l) => EventsAt(i, l) = <<>>
    /\ (ti = i /\ pc = "line" /\ li > l) =>
         (EventsAt(i, l) = << "exec_line_noecho", "input" >> /\ fail_line[i] = 0)

C24_Witness ==
  /\ pc = "line" /\ ti = 1 /\ li = 3
  /\ 2 \in DirectiveLines(1, "input")
  /\ EventsAt(1, 2) = << "exec_line_noecho", "input" >>
  /\ fail_line[1] = 0

\* C26: for a Verify line the capability is resolved first, then the line is
\* executed, then the capability is invoked: a line whose capability does not
\* resolve is not sent to the board, and the capability is not invoked when
\* the execution of the line failed.
C26_VerifyOrder ==
  \A i \in 1..Len(fail_line) : \A l \in DirectiveLines(i, "verify") :
    /\ EventsAt(i, l) \in { <<>>, << "resolve" >>, << "resolve", "exec_line" >>,
                            << "resolve", "exec_line", "ver_func" >> }
    /\ (fail_line[i] = l /\ fail_cause[i] = "import") =>
         EventsAt(i, l) = << "resolve" >>
    /\ (fail_line[i] = l /\ fail_cause[i] = "exec_line") =>
         EventsAt(i, l) = << "resolve", "exec_line" >>
    /\ EventsAt(i, l) = << "resolve" >> =>
         (fail_line[i] = l /\ fail_cause[i] = "import")
    /\ EventsAt(i, l) = << "resolve", "exec_line" >> =>
         (fail_line[i] = l /\ fail_cause[i] = "exec_line")

C26_Witness ==
  /\ pc = "script_end" /\ ti = 1
  /\ 2 \in DirectiveLines(1, "verify")
  /\ fail_line[1] = 2 /\ fail_cause[1] = "exec_line"
  /\ EventsAt(1, 2) = << "resolve", "exec_line" >>

\* ------------------------------------------- claims on the write framing
\* C25: a call of exec_line writes the bytes of the line followed by exactly
\* one terminator and nothing else, CR LF when the call submits input and EOT
\* otherwise, and all its writes are made before any of its reads.
C25_WriteFraming ==
  /\ xl.pc = "write_command" => (repl.tx = <<>> /\ repl.rx = xl.board.rx)
  /\ xl.pc = "write_tail" =>
       (repl.tx = Encode(xl.command) /\ repl.rx = xl.board.rx)
  /\ xl.pc \notin {"idle", "write_command", "write_tail"} =>
       repl.tx = Encode(xl.command) \o (IF xl.input THEN << 13, 10 >> ELSE << 4 >>)

C25_Witness ==
  /\ xl.pc = "done" /\ xl.input /\ xl.status = "returned"
  /\ repl.tx = Encode(xl.command) \o << 13, 10 >>
  /\ repl.rx # xl.board.rx

\* C29: when a call of exec_line returns, with or without capture or as an
\* input submission, every byte the board sent in answer to that request has
\* been taken from the connection (at most the prompt that follows the
\* answer is left), so that nothing of it can satisfy the wait of a later
\* call.
C29_FramingSynchronised ==
  (/\ XlEnded /\ xl.status = "returned"
   /\ xl.board.kind = (IF xl.input THEN "echo" ELSE "exec")) =>
     repl.rx \in { <<>>, Prompt }

\* ------------------------------------------------- claims on update_fw
Places(f, x) == { k \in 1..Len(f) : f[k] = x }

\* What one call of update_fw did on the board, f, and wrote to the log.
FlashCallOrdered(f, written) ==
  /\ Cardinality(Places(f, "reset_to_bootloader")) <= 1
  /\ Cardinality(Places(f, "upload")) <= 1
  /\ Places(f, "reset_to_bootloader") # {} <=> Places(f, "not_in_bootloader") # {}
  /\ Places(f, "reset_to_bootloader") # {} <=> Places(f, "in_bootloader") = {}
                                               /\ Len(f) > 1
  /\ \A r \in Places(f, "reset_to_bootloader"), u \in Places(f, "upload") : r < u
  /\ \A u \in Places(f, "upload") :
        /\ f[1] = "open" /\ Places(f, "close") \cap 1..u = {}
        /\ f[u - 1] = "bootloader_info"
        /\ Len(f) > u => f[u + 1] = "close"
        /\ Len(f) > u + 1 => f[u + 2] = "open"
        /\ Cardinality(Places(f, "open") \cap (u + 1)..Len(f)) <= 1
  /\ (\E k \in 1..Len(written) : written[k] = "Firmware upload successful!") =>
        /\ fw_fault' # "flash"
        /\ \E mode \in { << "in_bootloader" >>,
                          << "not_in_bootloader", "reset_to_bootloader" >> } :
              f = << "open" >> \o mode
                    \o << "bootloader_info", "upload", "close", "open", "close" >>

\* C27: in a call of update_fw the reset to the bootloader is requested
\* exactly when the board is found not to be in bootloader mode, and before
\* the upload; the upload is attempted at most once, with the handle open
\* and the bootloader answering; after it the handle is released and taken
\* once more; success is logged only when every step succeeded.
C27_FlashOrder ==
  [][(pc = "flash" /\ ops' # ops) =>
       FlashCallOrdered(SubSeq(ops', Len(ops) + 1, Len(ops')),
                        SubSeq(getvalue(log'), log.pos + 1, log'.pos))]_vars

C27_Witness ==
  /\ pc = "st_check" /\ fw_fault = "none" /\ Len(ops) >= 8
  /\ SubSeq(ops, Len(ops) - 7, Len(ops)) =
       << "open", "not_in_bootloader", "reset_to_bootloader", "bootloader_info",
          "upload", "close", "open", "close" >>

\* ------------------------------------------------- claims on the phases
LineEvents == SentEvents \cup { "resolve", "ver_func" }

PhaseOf(e) ==
  CASE e.ev = "build_fw" -> 1
    [] e.ev = "update_fw" -> 2
    [] e.ev = "gather_tests" -> 3
    [] e.ev = "run_tests" -> 4
    [] e.ev \in LineEvents -> 5
    [] OTHER -> 0

\* The calls that belong to a phase; their order is transitive, so it is
\* stated on neighbours.
InPhase(e) == PhaseOf(e) > 0

Happened(name) == \E k \in 1..Len(trace) : trace[k].ev = name

FlashSucceeded ==
  /\ fw_fault \in { "none", "clean" }
  /\ Len(ops) >= 5
  /\ SubSeq(ops, Len(ops) - 4, Len(ops)) =
       << "bootloader_info", "upload", "close", "open", "close" >>

\* C28: the phases of start_test do not overlap and come in order: building,
\* flashing (only once the build gave its artifact), gathering (only once
\* the flash succeeded), running; no line is sent before the flash
\* succeeded; the scripts run one at a time in the order they were found and
\* the lines of a script in increasing line number.
C28_PhasesOrdered ==
  /\ LET steps == SelectSeq(trace, InPhase)
     IN \A k \in 2..Len(steps) :
          LET a == steps[k - 1]
              b == steps[k]
          IN /\ PhaseOf(a) <= PhaseOf(b)
             /\ PhaseOf(a) = PhaseOf(b) => PhaseOf(a) = 5
             /\ PhaseOf(a) = 5 => \/ a.t < b.t
                                  \/ a.t = b.t /\ a.l <= b.l
  /\ Happened("update_fw") =>
        (Happened("build_fw") /\ fw_fault \in { "none", "clean", "flash" })
  /\ Happened("gather_tests") => (Happened("update_fw") /\ FlashSucceeded)
  /\ Happened("run_tests") => (Happened("gather_tests") /\ FlashSucceeded)
  /\ (\E k \in 1..Len(trace) : trace[k].ev \in LineEvents) =>
        (Happened("run_tests") /\ FlashSucceeded)
  /\ has_tests => \A i \in 1..Len(tests) : tests[i].file = discovered[i]
  /\ \A k \in 1..Len(trace) :
        trace[k].ev \in LineEvents =>
          (trace[k].t \in 1..Len(tests) /\ trace[k].l \in 1..Len(Lines(trace[k].t)))

C28_Witness ==
  /\ pc = "script_end" /\ ti = 2 /\ Len(tests) = 2
  /\ SentLines(1) # {} /\ Cardinality(SentLines(2)) >= 2
  /\ FlashSucceeded

\* ------------------------------------------------- claims on result
\* C30: reading TestController.result gives a boolean and never faults,
\* whenever the controller is at rest: right after its construction
\* (connected or in error) and after start_test was left, by return or by
\* an exception.
C30_ResultNeverFaults ==
  pc \in { "check", "except", "finally" } => Result \in { "True", "False" }

\* ------------------------------------------------- claims on the counters
\* C31: tests_run is at most the number of discovered scripts and is the
\* number of scripts whose outcome is no longer unknown; when run_tests has
\* been left and run_rosie builds the board record, tests_passed is the
\* number of scripts that passed, tests_failed the number that failed, and
\* their sum is tests_run.
C31_CountersConsistent ==
  /\ tests_run <= Len(tests)
  /\ tests_run = Len(tests) - Count("None")
  /\ (pc = "finally" /\ RunTestsExited) =>
       /\ tests_passed = Count("True")
       /\ tests_failed = Count("False")
       /\ tests_passed + tests_failed = tests_run

\* ------------------------------------------------- claims on the log
\* What a step wrote to the log.
Written == SubSeq(getvalue(log'), log.pos + 1, log'.pos)

Wrote(text) == \E k \in 1..Len(Written) : Written[k] = text

\* C32: " - Passed!" is written for an Output or Verify line only when the
\* check of that line succeeded, and a script whose outcome is failed has a
\* "Test Failed!" entry in the log that names the last code executed and
\* its line number.
C32_LogAgreesWithOutcomes ==
  [][(pc = "line" /\ log' # log) =>
       /\ Wrote(" - Passed!") =>
            (pc' = "line" /\ li' = li + 1 /\ this_test_passed' = this_test_passed)
       /\ (pc' = "script_end" /\ ~this_test_passed') =>
            /\ Wrote("Test Failed!")
            /\ Wrote(" - Last code executed")
            /\ Wrote(" - Line: " \o ToString(li))]_vars

====
